---- MODULE Spec2Model ----
(***************************************************************************)
(* Model of the covered-call option contract of src/src/contract.rs.       *)
(* One instance: a single storage slot (config), the ledger height, and    *)
(* the handlers instantiate / try_transfer / try_execute / try_burn /      *)
(* query_config.  Every handler is a pure operator of                      *)
(* (slot, height, sender, funds, ...) giving the new slot and the          *)
(* Result<Response, ContractError>; the actions apply it atomically.       *)
(***************************************************************************)
EXTENDS Integers, Sequences, FiniteSets, TLC

\* ---------------------------------------------------------------- bounds
MaxHeight == 1    \* ledger heights 0..MaxHeight
MaxCoins  == 2    \* longest Vec<Coin> attached to a call or given in a message
MaxStray  == 1    \* cap on the total amount attached to successful Transfers

\* ---------------------------------------------------------------- inputs
Addrs   == {"creator", "owner", "anyone"}
\* the account that deploys the instance (addresses are interchangeable)
Creators == {"creator"}
Denoms  == {"BTC", "ETH"}
Amounts == {1}
Coin    == [denom : Denoms, amount : Amounts]
\* a Vec<Coin> naming each denomination at most once, in any order
Funds   == {f \in UNION {[1..n -> Coin] : n \in 0..MaxCoins} :
               \A i, j \in DOMAIN f : i # j => f[i].denom # f[j].denom}
\* the funds attached to instantiate
Collaterals == {<<>>, <<[denom |-> "BTC", amount |-> 1]>>}
Heights == 0..MaxHeight

\* Option<T> as a sequence of length 0 or 1
None    == <<>>
Some(x) == <<x>>

\* ---------------------------------------------------------------- errors
\* StdError::NotFound, raised by config(..).load()? on an empty slot
NotFound        == "NotFound"
\* ContractError::Unauthorized {}
Unauthorized    == "Unauthorized"
\* StdError::generic_err messages
InvalidExpiry   == "Cannot create expired option"
Expired         == "option expired"
FundsMismatch   == "must send exact counter_offer"
UnexpectedFunds == "don't send funds with burn"

\* ---------------------------------------------------------------- results
BankSend(to, amt) == [to_address |-> to, amount |-> amt]
Attr(k, v)        == [key |-> k, value |-> v]

Err(e) == [ok |-> FALSE, err |-> e, messages |-> <<>>, attributes |-> <<>>, data |-> None]
Ok(msgs, attrs, d) == [ok |-> TRUE, err |-> "", messages |-> msgs, attributes |-> attrs, data |-> d]

\* what a handler leaves behind: the slot after the call and its result.
\* An Err result is returned before any save/remove, so the slot is the input slot.
Fail(slot, e)    == [slot |-> slot, res |-> Err(e)]
Done(slot, res)  == [slot |-> slot, res |-> res]

\* ---------------------------------------------------------------- handlers
\* variant: an option expiring at the current height is accepted
instantiate_at_height(slot, h, sender, funds, counter_offer, expires) ==
    IF expires < h
    THEN Fail(slot, InvalidExpiry)
    ELSE Done(Some([creator       |-> sender,
                    owner         |-> sender,
                    collateral    |-> funds,
                    counter_offer |-> counter_offer,
                    expires       |-> expires]),
              Ok(<<>>, <<>>, None))

instantiate(slot, h, sender, funds, counter_offer, expires) ==
    IF expires <= h
    THEN Fail(slot, InvalidExpiry)
    ELSE Done(Some([creator       |-> sender,
                    owner         |-> sender,
                    collateral    |-> funds,
                    counter_offer |-> counter_offer,
                    expires       |-> expires]),
              Ok(<<>>, <<>>, None))

\* variant: the creator, not the owner, is authorized
try_transfer_by_creator(slot, h, sender, funds, recipient) ==
    IF slot = None THEN Fail(slot, NotFound)
    ELSE LET state == slot[1] IN
         IF sender # state.creator THEN Fail(slot, Unauthorized)
         ELSE Done(Some([state EXCEPT !.owner = recipient]),
                   Ok(<<>>, <<Attr("action", "transfer"), Attr("owner", recipient)>>, None))

\* variant: the transfer also rewrites creator with the caller
try_transfer_sets_creator(slot, h, sender, funds, recipient) ==
    IF slot = None THEN Fail(slot, NotFound)
    ELSE LET state == slot[1] IN
         IF sender # state.owner THEN Fail(slot, Unauthorized)
         ELSE Done(Some([state EXCEPT !.owner = recipient, !.creator = sender]),
                   Ok(<<>>, <<Attr("action", "transfer"), Attr("owner", recipient)>>, None))

\* variant: the owner check is missing
try_transfer_unchecked(slot, h, sender, funds, recipient) ==
    IF slot = None THEN Fail(slot, NotFound)
    ELSE LET state == slot[1] IN
         Done(Some([state EXCEPT !.owner = recipient]),
              Ok(<<>>, <<Attr("action", "transfer"), Attr("owner", recipient)>>, None))

try_transfer(slot, h, sender, funds, recipient) ==
    IF slot = None THEN Fail(slot, NotFound)
    ELSE LET state == slot[1] IN
         IF sender # state.owner THEN Fail(slot, Unauthorized)
         ELSE Done(Some([state EXCEPT !.owner = recipient]),
                   Ok(<<>>, <<Attr("action", "transfer"), Attr("owner", recipient)>>, None))

\* variant: exercise still allowed at height = expires
try_execute_at_expiry(slot, h, sender, funds) ==
    IF slot = None THEN Fail(slot, NotFound)
    ELSE LET state == slot[1] IN
         IF sender # state.owner THEN Fail(slot, Unauthorized)
         ELSE IF h > state.expires THEN Fail(slot, Expired)
         ELSE IF funds # state.counter_offer THEN Fail(slot, FundsMismatch)
         ELSE Done(None,
                   Ok(<<BankSend(state.creator, state.counter_offer),
                        BankSend(state.owner, state.collateral)>>,
                      <<Attr("action", "execute")>>, None))

\* variant: the two directives are emitted in the other order
try_execute_swapped(slot, h, sender, funds) ==
    IF slot = None THEN Fail(slot, NotFound)
    ELSE LET state == slot[1] IN
         IF sender # state.owner THEN Fail(slot, Unauthorized)
         ELSE IF h >= state.expires THEN Fail(slot, Expired)
         ELSE IF funds # state.counter_offer THEN Fail(slot, FundsMismatch)
         ELSE Done(None,
                   Ok(<<BankSend(state.owner, state.collateral),
                        BankSend(state.creator, state.counter_offer)>>,
                      <<Attr("action", "execute")>>, None))

\* variant: the record is not removed after the exercise
try_execute_keeps_record(slot, h, sender, funds) ==
    IF slot = None THEN Fail(slot, NotFound)
    ELSE LET state == slot[1] IN
         IF sender # state.owner THEN Fail(slot, Unauthorized)
         ELSE IF h >= state.expires THEN Fail(slot, Expired)
         ELSE IF funds # state.counter_offer THEN Fail(slot, FundsMismatch)
         ELSE Done(slot,
                   Ok(<<BankSend(state.creator, state.counter_offer),
                        BankSend(state.owner, state.collateral)>>,
                      <<Attr("action", "execute")>>, None))

\* variant: the record is removed before the funds check
try_execute_removes_early(slot, h, sender, funds) ==
    IF slot = None THEN Fail(slot, NotFound)
    ELSE LET state == slot[1] IN
         IF sender # state.owner THEN Fail(slot, Unauthorized)
         ELSE IF h >= state.expires THEN Fail(slot, Expired)
         ELSE IF funds # state.counter_offer THEN Fail(None, FundsMismatch)
         ELSE Done(None,
                   Ok(<<BankSend(state.creator, state.counter_offer),
                        BankSend(state.owner, state.collateral)>>,
                      <<Attr("action", "execute")>>, None))

\* variant: the expiry check comes before the owner check
try_execute_expiry_first(slot, h, sender, funds) ==
    IF slot = None THEN Fail(slot, NotFound)
    ELSE LET state == slot[1] IN
         IF h >= state.expires THEN Fail(slot, Expired)
         ELSE IF sender # state.owner THEN Fail(slot, Unauthorized)
         ELSE IF funds # state.counter_offer THEN Fail(slot, FundsMismatch)
         ELSE Done(None,
                   Ok(<<BankSend(state.creator, state.counter_offer),
                        BankSend(state.owner, state.collateral)>>,
                      <<Attr("action", "execute")>>, None))

\* variant: the caller is compared with the creator
try_execute_by_creator(slot, h, sender, funds) ==
    IF slot = None THEN Fail(slot, NotFound)
    ELSE LET state == slot[1] IN
         IF sender # state.creator THEN Fail(slot, Unauthorized)
         ELSE IF h >= state.expires THEN Fail(slot, Expired)
         ELSE IF funds # state.counter_offer THEN Fail(slot, FundsMismatch)
         ELSE Done(None,
                   Ok(<<BankSend(state.creator, state.counter_offer),
                        BankSend(state.owner, state.collateral)>>,
                      <<Attr("action", "execute")>>, None))

try_execute(slot, h, sender, funds) ==
    IF slot = None THEN Fail(slot, NotFound)
    ELSE LET state == slot[1] IN
         IF sender # state.owner THEN Fail(slot, Unauthorized)
         ELSE IF h >= state.expires THEN Fail(slot, Expired)
         ELSE IF funds # state.counter_offer THEN Fail(slot, FundsMismatch)
         ELSE Done(None,
                   Ok(<<BankSend(state.creator, state.counter_offer),
                        BankSend(state.owner, state.collateral)>>,
                      <<Attr("action", "execute")>>, None))

\* variant: the funds check comes before the expiry check
try_burn_funds_first(slot, h, sender, funds) ==
    IF slot = None THEN Fail(slot, NotFound)
    ELSE LET state == slot[1] IN
         IF funds # <<>> THEN Fail(slot, UnexpectedFunds)
         ELSE IF h < state.expires THEN Fail(slot, Expired)
         ELSE Done(None,
                   Ok(<<BankSend(state.creator, state.collateral)>>,
                      <<Attr("action", "burn")>>, None))

\* variant: the collateral goes back to the current owner
try_burn_to_owner(slot, h, sender, funds) ==
    IF slot = None THEN Fail(slot, NotFound)
    ELSE LET state == slot[1] IN
         IF h < state.expires THEN Fail(slot, Expired)
         ELSE IF funds # <<>> THEN Fail(slot, UnexpectedFunds)
         ELSE Done(None,
                   Ok(<<BankSend(state.owner, state.collateral)>>,
                      <<Attr("action", "burn")>>, None))

\* variant: the record is not removed after the reclaim
try_burn_keeps_record(slot, h, sender, funds) ==
    IF slot = None THEN Fail(slot, NotFound)
    ELSE LET state == slot[1] IN
         IF h < state.expires THEN Fail(slot, Expired)
         ELSE IF funds # <<>> THEN Fail(slot, UnexpectedFunds)
         ELSE Done(slot,
                   Ok(<<BankSend(state.creator, state.collateral)>>,
                      <<Attr("action", "burn")>>, None))

\* variant: reclaim only allowed strictly after expires
try_burn_after_expiry(slot, h, sender, funds) ==
    IF slot = None THEN Fail(slot, NotFound)
    ELSE LET state == slot[1] IN
         IF h <= state.expires THEN Fail(slot, Expired)
         ELSE IF funds # <<>> THEN Fail(slot, UnexpectedFunds)
         ELSE Done(None,
                   Ok(<<BankSend(state.creator, state.collateral)>>,
                      <<Attr("action", "burn")>>, None))

\* variant: only the current owner may reclaim
try_burn_owner_only(slot, h, sender, funds) ==
    IF slot = None THEN Fail(slot, NotFound)
    ELSE LET state == slot[1] IN
         IF sender # state.owner THEN Fail(slot, Unauthorized)
         ELSE IF h < state.expires THEN Fail(slot, Expired)
         ELSE IF funds # <<>> THEN Fail(slot, UnexpectedFunds)
         ELSE Done(None,
                   Ok(<<BankSend(state.creator, state.collateral)>>,
                      <<Attr("action", "burn")>>, None))

try_burn(slot, h, sender, funds) ==
    IF slot = None THEN Fail(slot, NotFound)
    ELSE LET state == slot[1] IN
         IF h < state.expires THEN Fail(slot, Expired)
         ELSE IF funds # <<>> THEN Fail(slot, UnexpectedFunds)
         ELSE Done(None,
                   Ok(<<BankSend(state.creator, state.collateral)>>,
                      <<Attr("action", "burn")>>, None))

\* variant: the answer carries the creator in the owner field
query_config_stale_owner(slot) ==
    IF slot = None THEN Fail(slot, NotFound)
    ELSE Done(slot, Ok(<<>>, <<>>, Some([slot[1] EXCEPT !.owner = slot[1].creator])))

query_config(slot) ==
    IF slot = None THEN Fail(slot, NotFound)
    ELSE Done(slot, Ok(<<>>, <<>>, slot))

\* ---------------------------------------------------------------- amounts
RECURSIVE Total(_, _)
\* total amount of denomination d in a Vec<Coin>
Total(funds, d) ==
    IF funds = <<>> THEN 0
    ELSE (IF Head(funds).denom = d THEN Head(funds).amount ELSE 0) + Total(Tail(funds), d)

RECURSIVE Sum(_)
\* total amount of a Vec<Coin>, all denominations together
Sum(funds) ==
    IF funds = <<>> THEN 0 ELSE Head(funds).amount + Sum(Tail(funds))

RECURSIVE TotalSent(_, _)
\* total amount of denomination d over a list of BankMsg::Send
TotalSent(msgs, d) ==
    IF msgs = <<>> THEN 0
    ELSE Total(Head(msgs).amount, d) + TotalSent(Tail(msgs), d)

\* ---------------------------------------------------------------- state
VARIABLES
    config,     \* the singleton slot: None or Some(State)
    height,     \* env.block.height of the next call
    last,       \* the most recent call: inputs, slot before it, result
    created,    \* None, or Some([state, height]) as written by instantiate
    settled,    \* the "action" of every successful Execute / Burn, in order
    sent,       \* every BankMsg::Send emitted over the instance's lifetime
    received    \* per denomination, funds attached to successful calls

vars == <<config, height, last, created, settled, sent, received>>

NoCall == [op |-> "none", sender |-> None, funds |-> <<>>, recipient |-> None,
           msg |-> None, height |-> 0, pre |-> None, res |-> Ok(<<>>, <<>>, None)]

Init ==
    /\ config = None
    /\ height = 0
    /\ last = NoCall
    /\ created = None
    /\ settled = <<>>
    /\ sent = <<>>
    /\ received = [d \in Denoms |-> 0]

RECURSIVE Accepted(_)
\* total amount received in the denominations D
Accepted(D) ==
    IF D = {} THEN 0
    ELSE LET d == CHOOSE x \in D : TRUE IN received[d] + Accepted(D \ {d})

\* amount received so far beyond the collateral
Stray == Accepted(Denoms) - Sum(created[1].state.collateral)

\* the host commits a successful call (slot, directives, attached funds) and
\* rolls a failed one back
Apply(op, funds, r) ==
    /\ r.res.ok /\ op = "transfer" => Stray + Sum(funds) <= MaxStray
    /\ config' = r.slot
    /\ sent' = sent \o r.res.messages
    /\ received' = IF r.res.ok
                   THEN [d \in Denoms |-> received[d] + Total(funds, d)]
                   ELSE received
    /\ settled' = IF r.res.ok /\ op \in {"execute", "burn"}
                  THEN Append(settled, op) ELSE settled
    /\ created' = IF r.res.ok /\ op = "instantiate"
                  THEN Some([state |-> r.slot[1], height |-> height]) ELSE created
    /\ UNCHANGED height

\* a call, with its inputs and its result kept for inspection
Commit(op, sender, funds, recipient, msg, r) ==
    /\ Apply(op, funds, r)
    /\ last' = [op |-> op, sender |-> sender, funds |-> funds, recipient |-> recipient,
                msg |-> msg, height |-> height, pre |-> config, res |-> r.res]

\* instantiate runs once per instance: the host creates the instance with it
Instantiate ==
    /\ created = None
    /\ \E sender \in Creators, funds \in Collaterals, counter_offer \in Funds, expires \in Heights :
          Commit("instantiate", Some(sender), funds, None,
                 Some([counter_offer |-> counter_offer, expires |-> expires]),
                 instantiate(config, height, sender, funds, counter_offer, expires))

Transfer ==
    /\ created # None
    /\ \E sender \in Addrs, funds \in Funds, recipient \in Addrs :
          Commit("transfer", Some(sender), funds, Some(recipient), None,
                 try_transfer(config, height, sender, funds, recipient))

Execute ==
    /\ created # None
    /\ \E sender \in Addrs, funds \in Funds :
          Commit("execute", Some(sender), funds, None, None,
                 try_execute(config, height, sender, funds))

Burn ==
    /\ created # None
    /\ \E sender \in Addrs, funds \in Funds :
          Commit("burn", Some(sender), funds, None, None,
                 try_burn(config, height, sender, funds))

Query ==
    /\ created # None
    /\ Commit("query", None, <<>>, None, None, query_config(config))

\* the ledger height only grows
AdvanceBlock ==
    /\ height < MaxHeight
    /\ height' = height + 1
    /\ UNCHANGED <<config, last, created, settled, sent, received>>

Next == Instantiate \/ Transfer \/ Execute \/ Burn \/ Query \/ AdvanceBlock

Spec == Init /\ [][Next]_vars

\* ---------------------------------------------------------------- progress
\* The same calls with the record of the last call left alone (a failed call
\* is then a step that changes nothing; a query never changes anything and
\* is left out).
InstantiateStep ==
    /\ created = None
    /\ \E sender \in Creators, funds \in Collaterals, counter_offer \in Funds, expires \in Heights :
          Apply("instantiate", funds,
                instantiate(config, height, sender, funds, counter_offer, expires))
    /\ UNCHANGED last

TransferStep ==
    /\ created # None
    /\ \E sender \in Addrs, funds \in Funds, recipient \in Addrs :
          Apply("transfer", funds, try_transfer(config, height, sender, funds, recipient))
    /\ UNCHANGED last

ExecuteStep ==
    /\ created # None
    /\ \E sender \in Addrs, funds \in Funds :
          Apply("execute", funds, try_execute(config, height, sender, funds))
    /\ UNCHANGED last

BurnStep ==
    /\ created # None
    /\ \E sender \in Addrs, funds \in Funds :
          Apply("burn", funds, try_burn(config, height, sender, funds))
    /\ UNCHANGED last

\* somebody calls Burn the way it is meant to be called, with no funds
BurnNoFunds ==
    /\ created # None
    /\ \E sender \in Addrs : Apply("burn", <<>>, try_burn(config, height, sender, <<>>))
    /\ UNCHANGED last

LiveNext == InstantiateStep \/ TransferStep \/ ExecuteStep \/ BurnStep \/ AdvanceBlock

\* the ledger keeps producing blocks and Burn keeps being called
LiveSpec == Init /\ [][LiveNext]_vars /\ WF_vars(AdvanceBlock) /\ WF_vars(BurnNoFunds)

\* ================================================================ properties
\* the record a call found in the slot
Pre == last.pre[1]

\* C1: Exercise succeeds exactly when the record exists, the caller is its
\* current owner, the height is strictly below expires and the attached funds
\* equal counter_offer; in every other case it returns an error.
ExecuteSucceedsIff ==
    last.op = "execute" =>
        /\ last.res.ok <=> /\ last.pre # None
                           /\ last.sender = Some(Pre.owner)
                           /\ last.height < Pre.expires
                           /\ last.funds = Pre.counter_offer
        /\ ~last.res.ok => last.res.err \in {NotFound, Unauthorized, Expired, FundsMismatch}

ExecuteSucceeded ==
    /\ last.op = "execute" /\ last.res.ok
    /\ Pre.owner # Pre.creator
    /\ last.funds # <<>>

\* C2: a successful Exercise emits exactly two directives, counter_offer to
\* the creator first and collateral to the current owner (the caller) second,
\* the attribute action=execute, and deletes the record.
ExecuteEffect ==
    last.op = "execute" /\ last.res.ok =>
        /\ last.res.messages = <<BankSend(Pre.creator, Pre.counter_offer),
                                 BankSend(Pre.owner, Pre.collateral)>>
        /\ last.sender = Some(Pre.owner)
        /\ last.res.attributes = <<Attr("action", "execute")>>
        /\ config = None

ExecutePaidBoth ==
    /\ last.op = "execute" /\ last.res.ok
    /\ Pre.owner # Pre.creator
    /\ Pre.counter_offer # Pre.collateral
    /\ Len(last.res.messages) = 2

InstantiateEffect ==
    last.op = "instantiate" =>
        IF last.msg[1].expires <= last.height
        THEN /\ ~last.res.ok
             /\ last.res.err = InvalidExpiry
             /\ config = None
        ELSE /\ last.res.ok
             /\ config = Some([creator       |-> last.sender[1],
                               owner         |-> last.sender[1],
                               collateral    |-> last.funds,
                               counter_offer |-> last.msg[1].counter_offer,
                               expires       |-> last.msg[1].expires])
             /\ last.res.messages = <<>>

Instantiated ==
    /\ last.op = "instantiate" /\ last.res.ok
    /\ config # None
    /\ last.funds # <<>>
    /\ last.msg[1].counter_offer # last.funds

\* C6: once Exercise or Reclaim has succeeded the record is gone for good and
\* every later Transfer, Exercise, Burn and Query fails with NotFound.
InertAfterSettlement ==
    settled # <<>> =>
        /\ config = None
        /\ last.pre = None =>
               /\ last.op \in {"transfer", "execute", "burn", "query"}
               /\ ~last.res.ok
               /\ last.res.err = NotFound

CalledAfterSettlement ==
    /\ settled # <<>>
    /\ last.op = "transfer"
    /\ last.pre = None
    /\ last.sender = Some(created[1].state.creator)

\* C7: at most one settlement ever succeeds, so the lifetime number of
\* directives is 0 (none), 1 (one reclaim) or 2 (one exercise).
AtMostOneSettlement ==
    /\ Len(settled) <= 1
    /\ settled = <<>> => Len(sent) = 0
    /\ settled = <<"burn">> => Len(sent) = 1
    /\ settled = <<"execute">> => Len(sent) = 2

SettledThenCalledAgain ==
    /\ settled = <<"execute">>
    /\ last.op \in {"execute", "burn"}
    /\ ~last.res.ok

\* C8: after settlement the directives emitted add up, denomination by
\* denomination, to the funds the instance accepted (collateral plus the funds
\* attached to successful calls).
ValueConserved ==
    settled # <<>> =>
        /\ sent[Len(sent)].amount = created[1].state.collateral
        /\ Len(sent) = 2 => sent[1] = BankSend(created[1].state.creator,
                                               created[1].state.counter_offer)
        /\ \A d \in Denoms : TotalSent(sent, d) = received[d]

\* C9: a Transfer called by anyone but the record's current owner (the creator
\* included, once the option has changed hands) fails with Unauthorized and
\* leaves the record as it was.
TransferByNonOwnerRejected ==
    last.op = "transfer" /\ last.pre # None /\ last.sender # Some(Pre.owner) =>
        /\ ~last.res.ok
        /\ last.res.err = Unauthorized
        /\ config = last.pre

CreatorRejectedAfterHandover ==
    /\ last.op = "transfer" /\ last.pre # None
    /\ Pre.owner # Pre.creator
    /\ last.sender = Some(Pre.creator)
    /\ ~last.res.ok

\* C10: through any sequence of successful Transfers creator, collateral,
\* counter_offer and expires stay as written at instantiation (expires above
\* the creation height), the owner becomes the recipient, and no funds move.
TransferFrame ==
    /\ config # None =>
           /\ config[1].creator = created[1].state.creator
           /\ config[1].collateral = created[1].state.collateral
           /\ config[1].counter_offer = created[1].state.counter_offer
           /\ config[1].expires = created[1].state.expires
           /\ config[1].expires > created[1].height
    /\ last.op = "transfer" /\ last.res.ok =>
           /\ config = Some([Pre EXCEPT !.owner = last.recipient[1]])
           /\ last.res.messages = <<>>

TransferredTwice ==
    /\ last.op = "transfer" /\ last.res.ok
    /\ Pre.owner # Pre.creator
    /\ last.recipient # Some(Pre.owner)
    /\ config[1].owner = last.recipient[1]

\* C11: whenever Instantiate, Transfer, Exercise or Burn returns an error the
\* slot is exactly as before the call and no directive is emitted.
FailureLeavesNoTrace ==
    last.op \in {"instantiate", "transfer", "execute", "burn"} /\ ~last.res.ok =>
        /\ config = last.pre
        /\ last.res.messages = <<>>

FailedAtLastCheck ==
    /\ last.op = "execute" /\ ~last.res.ok
    /\ last.res.err = FundsMismatch
    /\ config # None

\* C12: in every step that changes the stored owner, the step is a successful
\* Transfer called by the owner before the step, and the owner after the step
\* is its recipient; no other call changes owner.
OwnerChangesOnlyByTransfer ==
    [][ (config # None /\ config' # None /\ config'[1].owner # config[1].owner) =>
            /\ last'.op = "transfer"
            /\ last'.res.ok
            /\ last'.sender = Some(config[1].owner)
            /\ last'.recipient = Some(config'[1].owner) ]_vars

OwnerChanged ==
    /\ last.op = "transfer" /\ last.res.ok
    /\ Pre.owner = Pre.creator
    /\ config[1].owner # Pre.owner

\* number of times coin c is listed in a Vec<Coin>
Count(funds, c) == Cardinality({i \in DOMAIN funds : funds[i] = c})
\* the same (denomination, amount) pairs, in whatever order
SameCoins(f, g) == \A c \in Coin : Count(f, c) = Count(g, c)

\* C13: the funds check of Exercise accepts attached funds that hold the same
\* (denomination, amount) pairs as counter_offer in any order, and fails with
\* FundsMismatch otherwise.
FundsComparedAsMultiset ==
    (/\ last.op = "execute" /\ last.pre # None
     /\ last.sender = Some(Pre.owner) /\ last.height < Pre.expires) =>
        IF SameCoins(last.funds, Pre.counter_offer)
        THEN last.res.ok
        ELSE ~last.res.ok /\ last.res.err = FundsMismatch

\* C14: Query changes nothing; it returns the stored record while there is
\* one, and fails with NotFound once the option is settled.
QueryReadOnly ==
    last.op = "query" =>
        /\ config = last.pre
        /\ last.res.messages = <<>>
        /\ IF last.pre # None
           THEN last.res.ok /\ last.res.data = last.pre
           ELSE ~last.res.ok /\ last.res.err = NotFound

QueriedAfterTransfer ==
    /\ last.op = "query" /\ last.res.ok
    /\ config[1].owner # config[1].creator
    /\ last.res.data[1].owner = config[1].owner

\* C15: Exercise reports the first failing check in the order NotFound,
\* Unauthorized, Expired, FundsMismatch.
ExecuteCheckOrder ==
    last.op = "execute" /\ ~last.res.ok =>
        last.res.err =
            IF last.pre = None THEN NotFound
            ELSE IF last.sender # Some(Pre.owner) THEN Unauthorized
            ELSE IF last.height >= Pre.expires THEN Expired
            ELSE FundsMismatch

StrangerLateWithWrongFunds ==
    /\ last.op = "execute" /\ last.pre # None
    /\ last.sender # Some(Pre.owner)
    /\ last.height >= Pre.expires
    /\ last.funds # Pre.counter_offer
    /\ last.res.err = Unauthorized

\* C16: once a Transfer to a recipient other than the old owner has committed,
\* an Exercise by the old owner fails with Unauthorized, an Exercise by the
\* recipient passes the owner check and, when it succeeds, sends the collateral
\* to the recipient; a Transfer after a successful Exercise fails with NotFound.
ExerciseSeesCommittedOwner ==
    /\ (last.op = "transfer" /\ last.res.ok /\ last.recipient # Some(Pre.owner)) =>
           \A f \in Funds :
               LET old == try_execute(config, height, Pre.owner, f).res
                   new == try_execute(config, height, last.recipient[1], f).res
               IN /\ ~old.ok /\ old.err = Unauthorized
                  /\ new.ok \/ new.err \in {Expired, FundsMismatch}
                  /\ new.ok => new.messages[2].to_address = last.recipient[1]
    /\ (last.op = "execute" /\ last.pre # None) =>
           /\ last.sender # Some(Pre.owner) => ~last.res.ok /\ last.res.err = Unauthorized
           /\ last.res.ok => /\ Some(last.res.messages[2].to_address) = last.sender
                             /\ last.res.messages[2].to_address = Pre.owner
    /\ (last.op = "transfer" /\ settled = <<"execute">>) =>
           ~last.res.ok /\ last.res.err = NotFound

FormerOwnerRejected ==
    /\ last.op = "execute" /\ last.pre # None
    /\ Pre.owner # Pre.creator
    /\ last.sender = Some(Pre.creator)
    /\ last.funds = Pre.counter_offer
    /\ last.height < Pre.expires
    /\ last.res.err = Unauthorized

====
